---- MODULE Spec2Model ----
(***************************************************************************)
(* Model of AIPropositionAgent (src/src/python/AIPropositionAgent.py).     *)
(*                                                                         *)
(* The agent object is the state: premises, hypothesis, statement,         *)
(* evidence, expert_data, group_feedback, confidence_scores.  The four     *)
(* public methods are the actions.  Each action runs the whole method,     *)
(* checkpoint after checkpoint, and records what it did in `trace`         *)
(* (log_step calls, helper invocations, ledger appends, score writes) and  *)
(* how it ended in `last`.  A method is a list of checkpoints: each        *)
(* checkpoint operator gives what the checkpoint writes, the events it     *)
(* emits and whether it passes, raises or returns; Run executes the list   *)
(* up to the first checkpoint that does not pass.                          *)
(*                                                                         *)
(* The helper methods of the class are placeholders ("simplified for       *)
(* brevity", line 281).  Every helper is modelled by what its body does;   *)
(* a helper may also be replaced by a scripted double, which is how the    *)
(* failure branches of the checkpoints are exercised.  Mode "src" is the   *)
(* body as written.                                                        *)
(*                                                                         *)
(* Scores are in hundredths: 0.7 is 70.                                    *)
(***************************************************************************)
EXTENDS Integers, Sequences, FiniteSets, TLC

VARIABLES
    premises,           \* self.premises
    hypothesis,         \* self.hypothesis
    statement,          \* self.statement
    evidence,           \* self.evidence, the ledger
    expert_data,        \* self.expert_data: a reference into heap
    heap,               \* the dict objects self.expert_data has referred to
    group_feedback,     \* self.group_feedback
    confidence_scores,  \* self.confidence_scores
    trace,              \* what the last public call did, in order
    last,               \* the last public call, its input and how it ended
    history,            \* the public calls made so far, oldest first
    departed            \* a call has departed from the __main__ scenario

vars == <<premises, hypothesis, statement, evidence, expert_data, heap,
          group_feedback, confidence_scores, trace, last, history,
          departed>>

----------------------------------------------------------------------------
(* Bounds *)

MaxOps == 4
MaxPremises == 2
MaxFailures == 2

----------------------------------------------------------------------------
(* Strings the code inspects *)

\* hypothesis and statement are sequences of pieces, each piece a string: the
\* text is the pieces joined with nothing between them.  The words the code
\* searches for and replaces, "causes" and "leads to", are pieces of their
\* own, and no other piece (phenomenon, effect, use case) contains them.

\* Python: word in s
Contains(s, word) == \E i \in 1..Len(s) : s[i] = word

\* Python: s.replace(old, new)
Replace(s, old, new) == [i \in 1..Len(s) |-> IF s[i] = old THEN new ELSE s[i]]

\* Python: len(s), the number of characters
RECURSIVE StrLen(_)
StrLen(s) == IF s = <<>> THEN 0 ELSE Len(Head(s)) + StrLen(Tail(s))

----------------------------------------------------------------------------
(* The agent as a value, events, and checkpoints *)

Self ==
    [premises |-> premises, hypothesis |-> hypothesis, statement |-> statement,
     evidence |-> evidence, expert_data |-> expert_data, heap |-> heap,
     group_feedback |-> group_feedback,
     confidence_scores |-> confidence_scores, trace |-> <<>>]

\* log_step(step, output): "start" is the announcement a checkpoint opens
\* with, "result" the line that reports what the checkpoint produced
Log(step, phase) == [kind |-> "log", name |-> step, detail |-> phase]

\* a helper method is invoked
Call(helper) == [kind |-> "call", name |-> helper, detail |-> ""]

\* confidence_scores[key] is written
Score(key) == [kind |-> "score", name |-> key, detail |-> ""]

\* a record with this source is appended to the ledger
Appended(source) == [kind |-> "append", name |-> source, detail |-> ""]

\* a helper is handed this value of the agent's state as its argument
Read(helper, value) == [kind |-> "read", name |-> helper, detail |-> value]

EmptyDict == [k \in {} |-> 0]

\* dict[key] = value on a dict modelled as a function
DictSet(d, key, value) ==
    [k \in (DOMAIN d) \cup {key} |-> IF k = key THEN value ELSE d[k]]

None == "None"

\* dict.get(key) with the default None
DictGet(d, key) == IF key \in DOMAIN d THEN d[key] ELSE None

\* Python truthiness of dict.get(key) for a boolean entry
Truthy(d, key) == key \in DOMAIN d /\ d[key] = TRUE

\* what a checkpoint did: the fields it wrote, the events it emitted, and
\* whether control goes on to the next checkpoint
Pass(writes, events) ==
    [end |-> "pass", error |-> "", result |-> <<>>,
     writes |-> writes, events |-> events]

\* raise ValueError(error), after the writes and events before it
Raises(error, writes, events) ==
    [end |-> "raise", error |-> error, result |-> <<>>,
     writes |-> writes, events |-> events]

\* return result
Returns(result, writes, events) ==
    [end |-> "return", error |-> "", result |-> result,
     writes |-> writes, events |-> events]

RECURSIVE EventsUpTo(_, _)
EventsUpTo(steps, k) ==
    IF k = 0 THEN <<>> ELSE EventsUpTo(steps, k - 1) \o steps[k].events

\* the index of the checkpoint at which the method ends
StopIndex(steps) ==
    LET stops == {i \in 1..Len(steps) : steps[i].end # "pass"}
    IN IF stops = {} THEN Len(steps)
       ELSE CHOOSE i \in stops : \A j \in stops : i <= j

\* a method run as a transaction: when it raises, what its checkpoints wrote
\* is undone
Run_RollsBack(a, steps) ==
    LET k == StopIndex(steps)
        Field(f) ==
            LET w == {i \in 1..k : f \in DOMAIN steps[i].writes}
            IN IF w = {} \/ steps[k].end = "raise" THEN a[f]
               ELSE steps[CHOOSE i \in w : \A j \in w : j <= i].writes[f]
    IN [agent |->
          [premises |-> Field("premises"),
           hypothesis |-> Field("hypothesis"),
           statement |-> Field("statement"),
           evidence |-> Field("evidence"),
           expert_data |-> Field("expert_data"),
           heap |-> Field("heap"),
           group_feedback |-> Field("group_feedback"),
           confidence_scores |-> Field("confidence_scores"),
           trace |-> a.trace \o EventsUpTo(steps, k)],
        outcome |-> IF steps[k].end = "raise" THEN "raised" ELSE "returned",
        error |-> steps[k].error,
        result |-> steps[k].result]

\* Statements run in program order: the checkpoints up to the one that ends
\* the method take effect, the later ones do not run.
Run(a, steps) ==
    LET k == StopIndex(steps)
        Field(f) ==
            LET w == {i \in 1..k : f \in DOMAIN steps[i].writes}
            IN IF w = {} THEN a[f]
               ELSE steps[CHOOSE i \in w : \A j \in w : j <= i].writes[f]
    IN [agent |->
          [premises |-> Field("premises"),
           hypothesis |-> Field("hypothesis"),
           statement |-> Field("statement"),
           evidence |-> Field("evidence"),
           expert_data |-> Field("expert_data"),
           heap |-> Field("heap"),
           group_feedback |-> Field("group_feedback"),
           confidence_scores |-> Field("confidence_scores"),
           trace |-> a.trace \o EventsUpTo(steps, k)],
        outcome |-> IF steps[k].end = "raise" THEN "raised" ELSE "returned",
        error |-> steps[k].error,
        result |-> steps[k].result]

\* a boolean helper under a double: "src" is the body as written
Verdict(mode, src) == IF mode = "src" THEN src ELSE FALSE

----------------------------------------------------------------------------
(* Helper methods used by define_proposition *)

ClarityThreshold == 70
InitialPrior == 70

evaluate_clarity(premise, clarity) == clarity[premise]

is_falsifiable(h, mode) == Verdict(mode, Contains(h, "causes"))

context_match(s, context, mode) == Verdict(mode, TRUE)

clarify_statement(s) == Replace(s, "causes", "leads to")

AssessableMinLen == 10

is_assessable(s, mode) == Verdict(mode, StrLen(s) > AssessableMinLen)

is_actionable(s, mode) == Verdict(mode, Contains(s, "leads to"))

\* frame_practical is called at line 69 and defined nowhere in the class:
\* mode "src" is that missing attribute.  Mode "suffix" is the method a
\* caller supplies to get past line 69: it frames the statement for use by
\* naming the use case after it.
frame_practical(s, use_case, mode) == s \o <<" for ", use_case>>

find_expert(domain, mode) ==
    IF mode = "src"
    THEN [name |-> "Expert", credentials |-> "PhD", reliability |-> 90]
    ELSE [name |-> "Expert", credentials |-> ""]

\* list.remove(x): drops the first element equal to x
RemoveFirst(list, x) ==
    LET at == CHOOSE i \in 1..Len(list) :
                  list[i] = x /\ \A j \in 1..(i - 1) : list[j] # x
    IN SubSeq(list, 1, at - 1) \o SubSeq(list, at + 1, Len(list))

\* for premise in self.premises: ... self.premises.remove(premise)
\* The iterator is an index into the list being mutated: after a removal the
\* index still advances, so the element that slid into the freed slot is
\* passed over.  l is the list, i the index, st the loop's effect so far.
RECURSIVE PremiseLoop(_, _, _, _)
PremiseLoop(l, i, clarity, st) ==
    IF i > Len(l) THEN [st EXCEPT !.premises = l]
    ELSE IF evaluate_clarity(l[i], clarity) > ClarityThreshold
         THEN PremiseLoop(l, i + 1, clarity,
                [st EXCEPT !.scores = DictSet(@, l[i], InitialPrior),
                           !.events = @ \o <<Call("evaluate_clarity"), Score(l[i])>>])
         ELSE PremiseLoop(RemoveFirst(l, l[i]), i + 1, clarity,
                [st EXCEPT !.events = Append(@, Call("evaluate_clarity"))])

----------------------------------------------------------------------------
(* define_proposition: the checkpoints 1.1 to 1.8 and the return *)

MindQuieting(in) ==
    IF in.context = ""
    THEN Raises("Context required for focus.", EmptyDict,
                <<Log("Mind Quieting", "start")>>)
    ELSE Pass(EmptyDict,
              <<Log("Mind Quieting", "start"), Log("Mind Quieting", "result")>>)

\* 1.2 starting from an empty score table, as if define began a new record
PremisesIdentification_FreshScores(a, in) ==
    LET loop == PremiseLoop(in.initial_premises, 1, in.clarity,
                            [premises |-> <<>>, scores |-> EmptyDict,
                             events |-> <<>>])
    IN Pass([premises |-> loop.premises, confidence_scores |-> loop.scores],
            <<Log("Premises Identification", "start")>> \o loop.events
            \o <<Log("Premises Identification", "result")>>)

PremisesIdentification(a, in) ==
    LET loop == PremiseLoop(in.initial_premises, 1, in.clarity,
                            [premises |-> <<>>, scores |-> a.confidence_scores,
                             events |-> <<>>])
    IN Pass([premises |-> loop.premises, confidence_scores |-> loop.scores],
            <<Log("Premises Identification", "start")>> \o loop.events
            \o <<Log("Premises Identification", "result")>>)

\* f"{phenomenon} causes {input_data.get('effect', 'an outcome')}."
HypothesisText(in) ==
    <<in.phenomenon, " ", "causes", " ",
      IF in.has_effect THEN in.effect ELSE "an outcome", ".">>

HypothesisFormation(in) ==
    IF in.phenomenon = ""
    THEN Raises("Phenomenon required for hypothesis.", EmptyDict,
                <<Log("Hypothesis Formation", "start")>>)
    ELSE IF ~is_falsifiable(HypothesisText(in), in.ev["is_falsifiable"])
    THEN Raises("Hypothesis must be falsifiable.",
                [hypothesis |-> HypothesisText(in)],
                <<Log("Hypothesis Formation", "start"), Call("is_falsifiable")>>)
    ELSE Pass([hypothesis |-> HypothesisText(in)],
              <<Log("Hypothesis Formation", "start"), Call("is_falsifiable"),
                Log("Hypothesis Formation", "result")>>)

\* h: self.hypothesis
StatementIdentification(h, in) ==
    IF ~context_match(h, in.context, in.ev["context_match"])
    THEN Raises("Statement does not match context.", [statement |-> h],
                <<Log("Statement Identification", "start"), Call("context_match")>>)
    ELSE Pass([statement |-> h],
              <<Log("Statement Identification", "start"), Call("context_match"),
                Log("Statement Identification", "result")>>)

\* s: self.statement when the checkpoint starts
BeliefClarification(s, in) ==
    IF ~is_assessable(clarify_statement(s), in.ev["is_assessable"])
    THEN Raises("Statement not assessable.", [statement |-> clarify_statement(s)],
                <<Log("Belief Clarification", "start"), Call("clarify_statement"),
                  Call("is_assessable")>>)
    ELSE Pass([statement |-> clarify_statement(s)],
              <<Log("Belief Clarification", "start"), Call("clarify_statement"),
                Call("is_assessable"), Log("Belief Clarification", "result")>>)

\* s: self.statement when the checkpoint starts
ClaimDefinition(s, in) ==
    IF in.frame = "src"
    THEN Raises("AttributeError: frame_practical", EmptyDict,
                <<Log("Claim Definition", "start")>>)
    ELSE IF ~is_actionable(frame_practical(s, in.use_case, in.frame),
                           in.ev["is_actionable"])
    THEN Raises("Claim not actionable.",
                [statement |-> frame_practical(s, in.use_case, in.frame)],
                <<Log("Claim Definition", "start"), Call("frame_practical"),
                  Call("is_actionable")>>)
    ELSE Pass([statement |-> frame_practical(s, in.use_case, in.frame)],
              <<Log("Claim Definition", "start"), Call("frame_practical"),
                Call("is_actionable"), Log("Claim Definition", "result")>>)

PropositionArticulation ==
    Pass(EmptyDict,
         <<Log("Proposition Articulation", "start"), Call("prepare_for_group"),
           Log("Proposition Articulation", "result")>>)

\* self.expert_data is rebound to the dict find_expert returns, a new object
ExpertIdentification(a, in) ==
    LET expert == find_expert(in.domain, in.ev["find_expert"])
        writes == [heap |-> Append(a.heap, expert),
                   expert_data |-> Len(a.heap) + 1]
    IN IF ~("credentials" \in DOMAIN expert /\ expert.credentials # "")
       THEN Raises("No qualified expert found.", writes,
                   <<Log("Expert Identification", "start"), Call("find_expert")>>)
       ELSE Pass(writes,
                 <<Log("Expert Identification", "start"), Call("find_expert"),
                   Log("Expert Identification", "result")>>)

define_proposition(a, in) ==
    LET c2 == PremisesIdentification(a, in)
        s4 == HypothesisText(in)
        s5 == clarify_statement(s4)
        s6 == frame_practical(s5, in.use_case, in.frame)
    IN Run(a, <<MindQuieting(in),
                c2,
                HypothesisFormation(in),
                StatementIdentification(s4, in),
                BeliefClarification(s4, in),
                ClaimDefinition(s5, in),
                PropositionArticulation,
                ExpertIdentification(a, in),
                Returns([statement |-> s6, premises |-> c2.writes.premises],
                        EmptyDict, <<>>)>>)

----------------------------------------------------------------------------
(* Helper methods used by gather_evidence *)

simulate_gut(data) == <<"Positive initial insight">>

observe_phenomena(target) == <<"Observation data">>

\* the timestamp is datetime.now(); no code reads it back
record_data(observations) == [data |-> observations, timestamp |-> "now"]

\* f"{p} supports {self.statement}" for p in premises
build_arguments(a, prems, data) ==
    [i \in 1..Len(prems) |-> [premise |-> prems[i], supports |-> a.statement]]

list_beliefs(arguments) == arguments

gather_facts(beliefs, sources) == <<"Fact 1", "Fact 2">>

apply_scenario(s, facts) == [results |-> "Scenario applied"]

conduct_experiment(s, controls) == [data |-> "Experiment results"]

\* the body returns False; a double may report the data as stale
is_outdated(data, time_sensitive, stale) == stale

refresh_data(sources) == [data |-> "Updated results"]

\* expert.get("reliability", 0.0); a double returns the score it is set to
review_credentials(expert, gv) ==
    IF gv.review_credentials = "src"
    THEN (IF "reliability" \in DOMAIN expert THEN expert.reliability ELSE 0)
    ELSE gv.reliability

\* the body returns one agreeing peer; a double returns a dissenting one
consult_group(s, group, gv) ==
    IF gv.consult_group = "src"
    THEN <<[member |-> "Peer", feedback |-> "Agree"]>>
    ELSE <<[member |-> "Critic", feedback |-> "Disagree"]>>

\* {"source": source, "data": data}
Record(source, data) == [source |-> source, data |-> data]

----------------------------------------------------------------------------
(* gather_evidence: the checkpoints 2.1 to 2.10, none of which can abort.  *)
(* Each one appends its record to self.evidence.                           *)

\* 2.8: the record is appended before the freshness check; the refresh only
\* rebinds the local exp_data, which the log line then shows
ExperimentRecord(a, context, gv) ==
    Record("experiment",
           conduct_experiment(a.statement, DictGet(context, "controls")))

ExperimentConducting(a, context, gv, ledger) ==
    Pass([evidence |-> Append(ledger, ExperimentRecord(a, context, gv))],
         <<Log("Experiment Conducting", "start"), Call("conduct_experiment"),
           Appended("experiment"), Call("is_outdated")>>
         \o (IF is_outdated(ExperimentRecord(a, context, gv).data,
                            DictGet(context, "time_sensitive"), gv.is_outdated)
             THEN <<Call("refresh_data")>> ELSE <<>>)
         \o <<Log("Experiment Conducting", "result")>>)

\* 2.9 with the score kept in a local: the dict is appended as it was
CredentialsReview_ScoreNotStored(a, gv, ledger) ==
    Pass([evidence |-> Append(ledger, Record("expert", [ref |-> a.expert_data]))],
         <<Log("Credentials Review", "start"), Call("review_credentials"),
           Appended("expert"), Log("Credentials Review", "result")>>)

\* 2.9: the score is written into the dict self.expert_data refers to, and
\* that same dict, not a copy, is appended
CredentialsReview(a, gv, ledger) ==
    Pass([heap |-> [a.heap EXCEPT ![a.expert_data] =
                      DictSet(@, "reliability",
                              review_credentials(@, gv))],
          evidence |-> Append(ledger, Record("expert", [ref |-> a.expert_data]))],
         <<Log("Credentials Review", "start"), Call("review_credentials"),
           Appended("expert"), Log("Credentials Review", "result")>>)

\* 2.10 without line 149: the feedback is kept but no record is appended
GroupConsultation_NoAppend(a, context, gv, ledger) ==
    LET feedback == consult_group(a.statement, DictGet(context, "group"), gv)
    IN Pass([group_feedback |-> feedback, evidence |-> ledger],
            <<Log("Group Consultation", "start"), Call("consult_group"),
              Log("Group Consultation", "result")>>)

\* 2.10
GroupConsultation(a, context, gv, ledger) ==
    LET feedback == consult_group(a.statement, DictGet(context, "group"), gv)
    IN Pass([group_feedback |-> feedback,
             evidence |-> Append(ledger, Record("group", feedback))],
            <<Log("Group Consultation", "start"), Call("consult_group"),
              Appended("group"), Log("Group Consultation", "result")>>)

\* 2.1 to 2.7: call the helper, append what it returned
Collect(step, helper, source, data, ledger) ==
    Pass([evidence |-> Append(ledger, Record(source, data))],
         <<Log(step, "start"), Call(helper), Appended(source), Log(step, "result")>>)

\* the method as a stage guard would leave it when the call comes out of
\* order: it raises before its first checkpoint
gather_evidence_Guarded(a, context, gv) ==
    Run(a, <<Raises("Proposition not defined.", EmptyDict,
                    <<[kind |-> "enter", name |-> "gather_evidence",
                       detail |-> context]>>)>>)

gather_evidence(a, context, gv) ==
    LET gut_insights == simulate_gut(DictGet(context, "initial_data"))
        observations == observe_phenomena(DictGet(context, "target"))
        recorded_data == record_data(observations)
        arguments == build_arguments(a, a.premises, recorded_data)
        beliefs == list_beliefs(arguments)
        facts == gather_facts(beliefs, DictGet(context, "data_sources"))
        results == apply_scenario(a.statement, facts)
        c1 == Collect("Gut Tuning", "simulate_gut", "intuition", gut_insights,
                      a.evidence)
        c2 == Collect("Phenomena Observation", "observe_phenomena", "observation",
                      observations, c1.writes.evidence)
        c3 == Collect("Experience Recording", "record_data", "recorded",
                      recorded_data, c2.writes.evidence)
        c4 == Collect("Argument Building", "build_arguments", "arguments",
                      arguments, c3.writes.evidence)
        c5 == Collect("Beliefs Listing", "list_beliefs", "beliefs", beliefs,
                      c4.writes.evidence)
        c6 == Collect("Facts Gathering", "gather_facts", "facts", facts,
                      c5.writes.evidence)
        c7 == Collect("Scenario Application", "apply_scenario", "scenario",
                      results, c6.writes.evidence)
        c8 == ExperimentConducting(a, context, gv, c7.writes.evidence)
        c9 == CredentialsReview(a, gv, c8.writes.evidence)
        c10 == GroupConsultation(a, context, gv, c9.writes.evidence)
    IN Run(a, <<Pass(EmptyDict, <<[kind |-> "enter", name |-> "gather_evidence",
                                    detail |-> context]>>),
                c1, c2, c3, c4, c5, c6, c7, c8, c9, c10,
                Returns(c10.writes.evidence, EmptyDict,
                        <<[kind |-> "exit", name |-> "gather_evidence",
                           detail |-> ""]>>)>>)

----------------------------------------------------------------------------
(* Helper methods used by evaluate_proposition; the bodies return constants *)

cross_check_logic(mode) == [valid |-> Verdict(mode, TRUE)]
test_consistency(mode) == [consistent |-> Verdict(mode, TRUE)]
check_fit(mode) == [coherent |-> Verdict(mode, TRUE)]
compare_facts(mode) == [aligned |-> Verdict(mode, TRUE)]
verify_repeatability(mode) == [reliable |-> Verdict(mode, TRUE)]
evaluate_outcomes(mode) == [useful |-> Verdict(mode, TRUE)]
evaluate_testimony(mode) == [relevant |-> Verdict(mode, TRUE)]
gauge_consensus(mode) == [broad |-> Verdict(mode, TRUE)]

\* the body's return value
SrcAnalysis == [patterns |-> <<"Pattern 1">>, new_patterns |-> FALSE]

\* the body's return value, 0.85
SrcPosterior == 85

analyze_data(analysis) == analysis

update_bayesian(analysis, posterior) == posterior

----------------------------------------------------------------------------
(* evaluate_proposition: the checkpoints 3.1 to 3.9 and the return *)

\* a checkpoint that calls its helper and goes on whatever it reports
Gate_NeverRaises(step, helper, agrees, error) ==
    Pass(EmptyDict, <<Log(step, "start"), Call(helper), Log(step, "result")>>)

\* a checkpoint that logs what its helper returned before it tests it
Gate_LogsBeforeTest(step, helper, agrees, error) ==
    IF ~agrees
    THEN Raises(error, EmptyDict,
                <<Log(step, "start"), Call(helper), Log(step, "result")>>)
    ELSE Pass(EmptyDict, <<Log(step, "start"), Call(helper), Log(step, "result")>>)

\* a checkpoint that calls one helper and raises unless it agrees
Gate(step, helper, agrees, error) ==
    IF ~agrees
    THEN Raises(error, EmptyDict, <<Log(step, "start"), Call(helper)>>)
    ELSE Pass(EmptyDict, <<Log(step, "start"), Call(helper), Log(step, "result")>>)

LogicCrossCheck(in) ==
    Gate("Logic Cross-Check", "cross_check_logic",
         cross_check_logic(in.ev["cross_check_logic"]).valid,
         "Logic check failed.")

ConsistencyTesting(in) ==
    Gate("Consistency Testing", "test_consistency",
         test_consistency(in.ev["test_consistency"]).consistent,
         "Inconsistent reasoning.")

FitChecking(in) ==
    Gate("Fit Checking", "check_fit", check_fit(in.ev["check_fit"]).coherent,
         "Belief fit failed.")

StatementComparison(in) ==
    Gate("Statement Comparison", "compare_facts",
         compare_facts(in.ev["compare_facts"]).aligned,
         "Statement does not match facts.")

RepeatabilityVerification(in) ==
    Gate("Repeatability Verification", "verify_repeatability",
         verify_repeatability(in.ev["verify_repeatability"]).reliable,
         "Data not repeatable.")

\* 3.6 gathering again after the nested gather, as a loop on new_patterns
\* would
DataAnalysis_GathersAgain(a, in) ==
    LET analysis == analyze_data(in.analysis)
        scores == DictSet(a.confidence_scores, "posterior",
                          update_bayesian(analysis, in.posterior))
        opening == <<Log("Data Analysis", "start"), Call("analyze_data"),
                     Call("update_bayesian"), Score("posterior")>>
        context == [data_sources |-> DictGet(analysis, "new_sources")]
        first == gather_evidence(
                    [a EXCEPT !.confidence_scores = scores, !.trace = <<>>],
                    context, in.gather).agent
        nested == gather_evidence(first, context, in.gather).agent
    IN IF Truthy(analysis, "new_patterns")
       THEN Pass([confidence_scores |-> scores, evidence |-> nested.evidence,
                  heap |-> nested.heap, group_feedback |-> nested.group_feedback],
                 opening \o nested.trace \o <<Log("Data Analysis", "result")>>)
       ELSE Pass([confidence_scores |-> scores],
                 opening \o <<Log("Data Analysis", "result")>>)

\* 3.6 with the posterior written only when the analysis asks for no further
\* evidence
DataAnalysis_PosteriorIfSettled(a, in) ==
    LET analysis == analyze_data(in.analysis)
        scores == DictSet(a.confidence_scores, "posterior",
                          update_bayesian(analysis, in.posterior))
        nested == gather_evidence(
                    [a EXCEPT !.trace = <<>>],
                    [data_sources |-> DictGet(analysis, "new_sources")],
                    in.gather).agent
    IN IF Truthy(analysis, "new_patterns")
       THEN Pass([confidence_scores |-> a.confidence_scores,
                  evidence |-> nested.evidence, heap |-> nested.heap,
                  group_feedback |-> nested.group_feedback],
                 <<Log("Data Analysis", "start"), Call("analyze_data")>>
                 \o nested.trace \o <<Log("Data Analysis", "result")>>)
       ELSE Pass([confidence_scores |-> scores],
                 <<Log("Data Analysis", "start"), Call("analyze_data"),
                   Call("update_bayesian"), Score("posterior"),
                   Log("Data Analysis", "result")>>)

\* 3.6 with the nested gather working on a copy of the ledger: what it
\* appends is not kept
DataAnalysis_GatherOnCopy(a, in) ==
    LET analysis == analyze_data(in.analysis)
        scores == DictSet(a.confidence_scores, "posterior",
                          update_bayesian(analysis, in.posterior))
        opening == <<Log("Data Analysis", "start"), Call("analyze_data"),
                     Call("update_bayesian"), Score("posterior")>>
        nested == gather_evidence(
                    [a EXCEPT !.confidence_scores = scores, !.trace = <<>>],
                    [data_sources |-> DictGet(analysis, "new_sources")],
                    in.gather).agent
    IN IF Truthy(analysis, "new_patterns")
       THEN Pass([confidence_scores |-> scores, heap |-> nested.heap,
                  group_feedback |-> nested.group_feedback],
                 opening \o nested.trace \o <<Log("Data Analysis", "result")>>)
       ELSE Pass([confidence_scores |-> scores],
                 opening \o <<Log("Data Analysis", "result")>>)

\* 3.6: the posterior is written, then gather_evidence runs inside
\* evaluate_proposition if the analysis has a true "new_patterns"
DataAnalysis(a, in) ==
    LET analysis == analyze_data(in.analysis)
        scores == DictSet(a.confidence_scores, "posterior",
                          update_bayesian(analysis, in.posterior))
        opening == <<Log("Data Analysis", "start"), Call("analyze_data"),
                     Call("update_bayesian"), Score("posterior")>>
        nested == gather_evidence(
                    [a EXCEPT !.confidence_scores = scores, !.trace = <<>>],
                    [data_sources |-> DictGet(analysis, "new_sources")],
                    in.gather).agent
    IN IF Truthy(analysis, "new_patterns")
       THEN Pass([confidence_scores |-> scores, evidence |-> nested.evidence,
                  heap |-> nested.heap, group_feedback |-> nested.group_feedback],
                 opening \o nested.trace \o <<Log("Data Analysis", "result")>>)
       ELSE Pass([confidence_scores |-> scores],
                 opening \o <<Log("Data Analysis", "result")>>)

OutcomesEvaluation(in) ==
    Gate("Outcomes Evaluation", "evaluate_outcomes",
         evaluate_outcomes(in.ev["evaluate_outcomes"]).useful,
         "Outcomes not practical.")

\* 3.8: expert is the dict self.expert_data refers to when the checkpoint
\* starts
TestimonyEvaluation(expert, in) ==
    LET gate == Gate("Testimony Evaluation", "evaluate_testimony",
                     evaluate_testimony(in.ev["evaluate_testimony"]).relevant,
                     "Expert testimony not relevant.")
    IN [gate EXCEPT !.events =
            <<Head(@), Read("evaluate_testimony", expert)>> \o Tail(@)]

\* 3.9: feedback is self.group_feedback when the checkpoint starts
AgreementGauging(feedback, in) ==
    LET gate == Gate("Agreement Gauging", "gauge_consensus",
                     gauge_consensus(in.ev["gauge_consensus"]).broad,
                     "No broad consensus.")
    IN [gate EXCEPT !.events =
            <<Head(@), Read("gauge_consensus", feedback)>> \o Tail(@)]

evaluate_proposition(a, in) ==
    LET c6 == DataAnalysis(a, in)
        heap6 == IF "heap" \in DOMAIN c6.writes THEN c6.writes.heap ELSE a.heap
        feedback6 == IF "group_feedback" \in DOMAIN c6.writes
                     THEN c6.writes.group_feedback ELSE a.group_feedback
    IN Run(a, <<LogicCrossCheck(in),
                ConsistencyTesting(in),
                FitChecking(in),
                StatementComparison(in),
                RepeatabilityVerification(in),
                c6,
                OutcomesEvaluation(in),
                TestimonyEvaluation(heap6[a.expert_data], in),
                AgreementGauging(feedback6, in),
                Returns([statement |-> a.statement,
                         confidence |-> c6.writes.confidence_scores],
                        EmptyDict, <<>>)>>)

----------------------------------------------------------------------------
(* Helper methods used by conclude_proposition; the bodies return constants *)

conclude_rationally(mode) == [valid |-> Verdict(mode, TRUE)]
accept_belief(mode) == [coherent |-> Verdict(mode, TRUE)]
conclude_alignment(mode) == [matched |-> Verdict(mode, TRUE)]
accept_empirically(mode) == [supported |-> Verdict(mode, TRUE)]
deem_practical(mode) == [effective |-> Verdict(mode, TRUE)]
trust_authority(mode) == [credible |-> Verdict(mode, TRUE)]
consider_consensus(mode) == [agreed |-> Verdict(mode, TRUE)]

\* log_step("Monitoring", ...)
schedule_monitoring == <<Call("schedule_monitoring"), Log("Monitoring", "start")>>

----------------------------------------------------------------------------
(* conclude_proposition: the checkpoints 4.1 to 4.8 and the return *)

\* a checkpoint that calls its helper and goes on whatever it reports
SoftGate_Continues(step, helper, agrees, reason) ==
    Pass(EmptyDict, <<Log(step, "start"), Call(helper), Log(step, "result")>>)

\* a checkpoint that calls one helper and returns a negative verdict unless
\* it agrees
SoftGate(step, helper, agrees, reason) ==
    IF ~agrees
    THEN Returns([truth |-> FALSE, reason |-> reason], EmptyDict,
                 <<Log(step, "start"), Call(helper)>>)
    ELSE Pass(EmptyDict, <<Log(step, "start"), Call(helper), Log(step, "result")>>)

RationalConclusion(in) ==
    Gate("Rational Conclusion", "conclude_rationally",
         conclude_rationally(in.ev["conclude_rationally"]).valid,
         "Rational conclusion failed.")

BeliefAcceptance(in) ==
    Gate("Belief Acceptance", "accept_belief",
         accept_belief(in.ev["accept_belief"]).coherent,
         "Belief not integrated.")

AlignmentConclusion(in) ==
    SoftGate("Alignment Conclusion", "conclude_alignment",
             conclude_alignment(in.ev["conclude_alignment"]).matched,
             "No fact alignment")

EmpiricalAcceptance(in) ==
    SoftGate("Empirical Acceptance", "accept_empirically",
             accept_empirically(in.ev["accept_empirically"]).supported,
             "No empirical support")

HypothesisRefinement ==
    Pass(EmptyDict,
         <<Log("Hypothesis Refinement", "start"), Call("refine_hypothesis"),
           Log("Hypothesis Refinement", "result")>>)

PracticalDeeming(in) ==
    SoftGate("Practical Deeming", "deem_practical",
             deem_practical(in.ev["deem_practical"]).effective,
             "Not practical")

\* 4.7 with the test of line 267 dropped
AuthorityTrusting_Unchecked(in) ==
    Pass(EmptyDict,
         <<Log("Authority Trusting", "start"), Call("trust_authority"),
           Log("Authority Trusting", "result")>>)

AuthorityTrusting(in) ==
    SoftGate("Authority Trusting", "trust_authority",
             trust_authority(in.ev["trust_authority"]).credible,
             "Expert not credible")

ConsensusConsideration(in) ==
    SoftGate("Consensus Consideration", "consider_consensus",
             consider_consensus(in.ev["consider_consensus"]).agreed,
             "No consensus")

\* the method without line 277: the positive verdict is returned and no
\* monitoring is scheduled
conclude_proposition_NoMonitoring(a, in) ==
    Run(a, <<RationalConclusion(in),
             BeliefAcceptance(in),
             AlignmentConclusion(in),
             EmpiricalAcceptance(in),
             HypothesisRefinement,
             PracticalDeeming(in),
             AuthorityTrusting(in),
             ConsensusConsideration(in),
             Returns([truth |-> TRUE, statement |-> a.statement,
                      confidence |-> a.confidence_scores],
                     EmptyDict, <<>>)>>)

conclude_proposition(a, in) ==
    Run(a, <<RationalConclusion(in),
             BeliefAcceptance(in),
             AlignmentConclusion(in),
             EmpiricalAcceptance(in),
             HypothesisRefinement,
             PracticalDeeming(in),
             AuthorityTrusting(in),
             ConsensusConsideration(in),
             Returns([truth |-> TRUE, statement |-> a.statement,
                      confidence |-> a.confidence_scores],
                     EmptyDict, schedule_monitoring)>>)

----------------------------------------------------------------------------
(* Inputs: the arguments of the public methods and the doubles in force *)

PremiseNames == {"Recognition motivates", "Effort impacts output"}

ClarityScores == {50, 70, 80}

PremiseLists == UNION {[1..n -> PremiseNames] : n \in 0..MaxPremises}

\* initial_premises of __main__
MainPremises == <<"Recognition motivates", "Effort impacts output">>

\* the body of evaluate_clarity returns 0.8 for every premise
SrcClarity == [p \in PremiseNames |-> 80]

DefineHelpers ==
    {"is_falsifiable", "context_match", "is_assessable", "is_actionable",
     "find_expert"}

EvaluateHelpers ==
    {"cross_check_logic", "test_consistency", "check_fit", "compare_facts",
     "verify_repeatability", "evaluate_outcomes", "evaluate_testimony",
     "gauge_consensus"}

ConcludeHelpers ==
    {"conclude_rationally", "accept_belief", "conclude_alignment",
     "accept_empirically", "deem_practical", "trust_authority",
     "consider_consensus"}

\* every helper runs its body
AllSrc(helpers) == [h \in helpers |-> "src"]

\* every helper runs its body, except that at most MaxFailures of them are
\* doubles reporting failure
Doubles(helpers) ==
    {ev \in [helpers -> {"src", "fail"}] :
        Cardinality({h \in helpers : ev[h] = "fail"}) <= MaxFailures}

\* input_data of __main__, the helpers as written
MainDefine ==
    [context |-> "Workplace motivation",
     initial_premises |-> MainPremises,
     clarity |-> SrcClarity,
     phenomenon |-> "Employee recognition",
     has_effect |-> TRUE,
     effect |-> "increased productivity",
     use_case |-> "Team performance",
     domain |-> "Organizational psychology",
     frame |-> "src",
     ev |-> AllSrc(DefineHelpers)]

\* the same call with the missing frame_practical supplied
ScenarioDefine == [MainDefine EXCEPT !.frame = "suffix"]

\* calls that vary the premises and their clarity scores
PremiseVariations ==
    {[ScenarioDefine EXCEPT !.initial_premises = l, !.clarity = c] :
        l \in PremiseLists, c \in [PremiseNames -> ClarityScores]}

\* calls that vary what the checkpoints after the premise filter meet
CheckpointVariations ==
    [context : {"", "Workplace motivation"},
     initial_premises : {MainPremises},
     clarity : {SrcClarity},
     phenomenon : {"", "Employee recognition"},
     has_effect : BOOLEAN,
     effect : {"increased productivity"},
     use_case : {"Team performance"},
     domain : {"Organizational psychology"},
     frame : {"src", "suffix"},
     ev : Doubles(DefineHelpers)]

DefineInputs == PremiseVariations \cup CheckpointVariations

\* the entries of input_data that gather_evidence reads
MainContext ==
    [data_sources |-> <<"Web", "X posts">>,
     group |-> <<"Colleagues", "Experts">>,
     time_sensitive |-> FALSE]

SrcGather ==
    [is_outdated |-> FALSE, review_credentials |-> "src", reliability |-> 40,
     consult_group |-> "src"]

GatherDoubles ==
    [is_outdated : BOOLEAN, review_credentials : {"src", "double"},
     reliability : {40}, consult_group : {"src", "double"}]

ScenarioGather == [context |-> MainContext, gv |-> SrcGather]

GatherInputs ==
    [context : {MainContext, [time_sensitive |-> TRUE]}, gv : GatherDoubles]

Analyses ==
    {SrcAnalysis,
     [patterns |-> <<"Pattern 1">>, new_patterns |-> TRUE,
      new_sources |-> <<"Archive">>],
     [patterns |-> <<"Pattern 1">>, new_patterns |-> TRUE],
     [patterns |-> <<"Pattern 1">>, new_patterns |-> FALSE,
      new_sources |-> <<"Archive">>]}

ScenarioEvaluate ==
    [ev |-> AllSrc(EvaluateHelpers), analysis |-> SrcAnalysis,
     posterior |-> SrcPosterior, gather |-> SrcGather]

\* an analysis that reports new patterns and the sources to gather from
NewEvidence ==
    [patterns |-> <<"Pattern 1">>, new_patterns |-> TRUE,
     new_sources |-> <<"Archive">>]

\* one of the checkpoints after the data analysis fails
LateFailures ==
    {[AllSrc(EvaluateHelpers) EXCEPT ![h] = "fail"] :
        h \in {"evaluate_outcomes", "evaluate_testimony", "gauge_consensus"}}

\* calls that vary which checkpoints fail, calls that vary the analysis, and
\* calls in which a checkpoint fails after a nested gather
EvaluateInputs ==
    [ev : Doubles(EvaluateHelpers), analysis : {SrcAnalysis},
     posterior : {SrcPosterior, 60}, gather : {SrcGather}]
    \cup
    [ev : {AllSrc(EvaluateHelpers)}, analysis : Analyses,
     posterior : {SrcPosterior, 60}, gather : GatherDoubles]
    \cup
    [ev : LateFailures, analysis : {NewEvidence}, posterior : {60},
     gather : {SrcGather, [SrcGather EXCEPT !.review_credentials = "double"]}]

ScenarioConclude == [ev |-> AllSrc(ConcludeHelpers)]

ConcludeInputs == [ev : Doubles(ConcludeHelpers)]

----------------------------------------------------------------------------
(* The state machine *)

\* __init__
Init ==
    /\ premises = <<>>
    /\ hypothesis = <<>>    \* the empty string
    /\ statement = <<>>
    /\ evidence = <<>>
    /\ heap = <<EmptyDict>>
    /\ expert_data = 1
    /\ group_feedback = <<>>
    /\ confidence_scores = EmptyDict
    /\ trace = <<>>
    /\ last = [op |-> "init", outcome |-> "returned", error |-> "",
               result |-> <<>>, in |-> <<>>]
    /\ history = <<>>
    /\ departed = FALSE

\* the number of times a call entered gather_evidence, directly or nested
GathersStarted(t) ==
    Cardinality({i \in 1..Len(t) :
                    t[i].kind = "enter" /\ t[i].name = "gather_evidence"})

\* the agent after a public call, and what the caller saw of it; main is
\* the input __main__ gives this method
Apply(op, in, r, main) ==
    /\ premises' = r.agent.premises
    /\ hypothesis' = r.agent.hypothesis
    /\ statement' = r.agent.statement
    /\ evidence' = r.agent.evidence
    /\ heap' = r.agent.heap
    /\ expert_data' = r.agent.expert_data
    /\ group_feedback' = r.agent.group_feedback
    /\ confidence_scores' = r.agent.confidence_scores
    /\ trace' = r.agent.trace
    /\ last' = [op |-> op, outcome |-> r.outcome, error |-> r.error,
                result |-> r.result, in |-> in]
    /\ history' = Append(history, [op |-> op, outcome |-> r.outcome,
                                    main |-> in = main,
                                    gathers |-> GathersStarted(r.agent.trace)])

\* A run makes at most MaxOps public calls, in any order.  At most one of
\* them departs from the __main__ scenario; the others repeat its inputs.
Budget(in, scenario) ==
    /\ Len(history) < MaxOps
    /\ in = scenario \/ ~departed
    /\ departed' = (departed \/ in # scenario)

Define ==
    \E in \in DefineInputs :
        /\ Budget(in, ScenarioDefine)
        /\ Apply("define", in, define_proposition(Self, in), MainDefine)

Gather ==
    \E in \in GatherInputs :
        /\ Budget(in, ScenarioGather)
        /\ Apply("gather", in, gather_evidence(Self, in.context, in.gv),
                 ScenarioGather)

Evaluate ==
    \E in \in EvaluateInputs :
        /\ Budget(in, ScenarioEvaluate)
        /\ Apply("evaluate", in, evaluate_proposition(Self, in),
                 ScenarioEvaluate)

Conclude ==
    \E in \in ConcludeInputs :
        /\ Budget(in, ScenarioConclude)
        /\ Apply("conclude", in, conclude_proposition(Self, in),
                 ScenarioConclude)

Next == Define \/ Gather \/ Evaluate \/ Conclude

Spec == Init /\ [][Next]_vars

----------------------------------------------------------------------------
(* Reading the trace of the last call *)

\* the helper names invoked by the last call, in order
CallNames ==
    LET calls == SelectSeq(trace, LAMBDA e : e.kind = "call")
    IN [i \in 1..Len(calls) |-> calls[i].name]

Called(helper) == \E i \in 1..Len(CallNames) : CallNames[i] = helper

TimesCalled(helper) ==
    Cardinality({i \in 1..Len(CallNames) : CallNames[i] = helper})

\* the helper invoked last by the last call
LastCalled == CallNames[Len(CallNames)]

Logged(step, phase) ==
    \E i \in 1..Len(trace) :
        trace[i].kind = "log" /\ trace[i].name = step /\ trace[i].detail = phase

\* the number of times gather_evidence was entered in a trace
Enters(t) == Cardinality({i \in 1..Len(t) : t[i].kind = "enter"})

InSeq(x, list) == \E i \in 1..Len(list) : list[i] = x

\* the last call is a define_proposition whose premise filter ran
FilterRan ==
    last.op = "define" /\ Logged("Premises Identification", "result")

----------------------------------------------------------------------------
(* The premise filter *)

\* C1: after define, every input premise whose clarity score is <= 0.7 is
\* absent from the premises list and has no entry in confidence_scores, also
\* when two low-scoring premises are adjacent in the input.
C1_LowPremisesDropped ==
    FilterRan =>
        \A i \in 1..Len(last.in.initial_premises) :
            LET p == last.in.initial_premises[i]
            IN last.in.clarity[p] <= ClarityThreshold =>
                   /\ ~InSeq(p, premises)
                   /\ p \notin DOMAIN confidence_scores

\* C2: once the premise filter of define has run, every input premise whose
\* clarity score is > 0.7 has the prior 0.7 in confidence_scores, also when
\* it directly follows a low-scoring premise in the input.
C2_HighPremisesScored ==
    FilterRan =>
        \A i \in 1..Len(last.in.initial_premises) :
            LET p == last.in.initial_premises[i]
            IN last.in.clarity[p] > ClarityThreshold =>
                   /\ p \in DOMAIN confidence_scores
                   /\ confidence_scores[p] = InitialPrior

----------------------------------------------------------------------------
(* The evidence ledger *)

\* the sources of the records one gather_evidence appends, in order
GatherSources ==
    <<"intuition", "observation", "recorded", "arguments", "beliefs", "facts",
      "scenario", "experiment", "expert", "group">>

\* a step in which gather_evidence was entered n times leaves the old ledger
\* in place and appends n runs of the ten records, and nothing else
AppendsTenPerGather ==
    LET n == Enters(trace')
        old == Len(evidence)
    IN /\ (last'.op = "gather" => n = 1)
       /\ Len(evidence') = old + 10 * n
       /\ \A i \in 1..old : evidence'[i] = evidence[i]
       /\ \A k \in 1..(10 * n) :
              evidence'[old + k].source = GatherSources[((k - 1) % 10) + 1]

\* C3: every call of gather, for any context, appends exactly 10 evidence
\* records to the ledger, in the order intuition, observation, recorded,
\* arguments, beliefs, facts, scenario, experiment, expert, group, and appends
\* nothing else.
C3_GatherAppendsTen == [][AppendsTenPerGather]_vars

\* a gather on a ledger that already holds the records of earlier gathers
C3_Witness == last.op = "gather" /\ Len(evidence) >= 20

\* C4: whenever the freshness check reports the experiment data as stale, the
\* experiment record in the ledger after gather returns carries the refreshed
\* data, not the data originally collected.
C4_StaleExperimentRefreshed ==
    (last.op = "gather" /\ Called("refresh_data")) =>
        LET record == evidence[Len(evidence) - 2]
        IN /\ record.source = "experiment"
           /\ record.data = refresh_data(DictGet(last.in.context, "data_sources"))

----------------------------------------------------------------------------
(* The gather nested in evaluate *)

\* the names of the events between the enter and the exit of a nested gather
NestedNames ==
    LET inside == {i \in 1..Len(trace) :
                      /\ \E j \in 1..(i - 1) : trace[j].kind = "enter"
                      /\ \A j \in 1..i : trace[j].kind # "exit"}
    IN {trace[i].name : i \in inside}

\* the checkpoints of evaluate_proposition
EvaluateSteps ==
    {"Logic Cross-Check", "Consistency Testing", "Fit Checking",
     "Statement Comparison", "Repeatability Verification", "Data Analysis",
     "Outcomes Evaluation", "Testimony Evaluation", "Agreement Gauging"}

\* C5: one call of evaluate triggers at most one nested gather, and that
\* gather invokes no part of evaluate, whatever the analysis reports; the
\* nesting evaluate -> gather has depth at most 1 and evaluate ends.
C5_NestedGatherOnce ==
    last.op = "evaluate" =>
        /\ Enters(trace) <= 1
        /\ TimesCalled("analyze_data") <= 1
        /\ Enters(trace) = 1 =>
               /\ Cardinality({i \in 1..Len(trace) : trace[i].kind = "exit"}) = 1
               /\ NestedNames \cap (EvaluateSteps \cup EvaluateHelpers
                                    \cup {"analyze_data", "update_bayesian"}) = {}
               /\ Logged("Data Analysis", "result")

\* an evaluate whose analysis reports new patterns and new sources
C5_Witness ==
    /\ last.op = "evaluate"
    /\ Truthy(last.in.analysis, "new_patterns")
    /\ "new_sources" \in DOMAIN last.in.analysis
    /\ Enters(trace) = 1

----------------------------------------------------------------------------
(* Checkpoints that raise *)

\* the error each raising checkpoint gives when its helper reports failure
FailModeError ==
    [h \in DefineHelpers \cup EvaluateHelpers
           \cup {"conclude_rationally", "accept_belief"} |->
        CASE h = "is_falsifiable" -> "Hypothesis must be falsifiable."
          [] h = "context_match" -> "Statement does not match context."
          [] h = "is_assessable" -> "Statement not assessable."
          [] h = "is_actionable" -> "Claim not actionable."
          [] h = "find_expert" -> "No qualified expert found."
          [] h = "cross_check_logic" -> "Logic check failed."
          [] h = "test_consistency" -> "Inconsistent reasoning."
          [] h = "check_fit" -> "Belief fit failed."
          [] h = "compare_facts" -> "Statement does not match facts."
          [] h = "verify_repeatability" -> "Data not repeatable."
          [] h = "evaluate_outcomes" -> "Outcomes not practical."
          [] h = "evaluate_testimony" -> "Expert testimony not relevant."
          [] h = "gauge_consensus" -> "No broad consensus."
          [] h = "conclude_rationally" -> "Rational conclusion failed."
          [] h = "accept_belief" -> "Belief not integrated."]

\* the last call is a method with scripted helpers
HasHelpers == last.op \in {"define", "evaluate", "conclude"}

\* C6: in define, evaluate and the first two checkpoints of conclude, when
\* the helper of a raising checkpoint reports failure the method raises at
\* that checkpoint: no helper of a later checkpoint is invoked and no result
\* is returned.
C6_FailModeStops ==
    HasHelpers =>
        \A h \in DOMAIN FailModeError \cap DOMAIN last.in.ev :
            /\ (last.in.ev[h] = "fail" /\ Called(h)) =>
                   /\ last.outcome = "raised"
                   /\ last.error = FailModeError[h]
                   /\ last.result = <<>>
                   /\ LastCalled = h
                   /\ TimesCalled(h) = 1
            /\ (last.outcome = "raised" /\ last.error = FailModeError[h]) =>
                   /\ LastCalled = h
                   /\ last.result = <<>>

\* an evaluate that raised at one failing checkpoint and so never reached a
\* later failing one
C6_Witness ==
    /\ last.op = "evaluate"
    /\ last.outcome = "raised"
    /\ last.in.ev["check_fit"] = "fail"
    /\ last.in.ev["gauge_consensus"] = "fail"
    /\ LastCalled = "check_fit"

----------------------------------------------------------------------------
(* Checkpoints that return a negative verdict *)

\* the helpers of the checkpoints of conclude that return instead of raising,
\* in program order
SoftOrder ==
    <<"conclude_alignment", "accept_empirically", "deem_practical",
      "trust_authority", "consider_consensus">>

\* the reason each of them gives
SoftReason ==
    <<"No fact alignment", "No empirical support", "Not practical",
      "Expert not credible", "No consensus">>

\* C7: in conclude, the first of the checkpoints fact alignment, empirical
\* support, practical effectiveness, authority credibility, consensus
\* agreement that disagrees makes conclude return {truth: false, reason}
\* without raising; no later checkpoint, hypothesis refinement included when
\* it comes later, and not the monitoring scheduler is invoked after it.
C7_SoftFailReturns ==
    last.op = "conclude" =>
        \A i \in 1..Len(SoftOrder) :
            (last.in.ev[SoftOrder[i]] = "fail" /\ Called(SoftOrder[i])) =>
                /\ last.outcome = "returned"
                /\ last.result = [truth |-> FALSE, reason |-> SoftReason[i]]
                /\ LastCalled = SoftOrder[i]
                /\ \A j \in (i + 1)..Len(SoftOrder) : ~Called(SoftOrder[j])
                /\ i <= 2 => ~Called("refine_hypothesis")
                /\ ~Called("schedule_monitoring")

\* a conclude that stopped at empirical support, before the refinement
C7_Witness ==
    /\ last.op = "conclude"
    /\ last.outcome = "returned"
    /\ last.in.ev["accept_empirically"] = "fail"
    /\ last.in.ev["deem_practical"] = "fail"
    /\ LastCalled = "accept_empirically"

\* the last call is a conclude that returned the positive verdict
Positive ==
    last.op = "conclude" /\ last.outcome = "returned" /\ last.result.truth

\* C8: conclude returns truth: true, with the statement and the confidence
\* scores, if and only if all eight checkpoints agree; then the monitoring
\* scheduler is invoked exactly once, after the last checkpoint; in every
\* other outcome of conclude it is invoked zero times.
C8_PositiveIffAllAgree ==
    last.op = "conclude" =>
        /\ Positive <=> (\A h \in ConcludeHelpers : last.in.ev[h] = "src")
        /\ Positive =>
               /\ last.result = [truth |-> TRUE, statement |-> statement,
                                 confidence |-> confidence_scores]
               /\ TimesCalled("schedule_monitoring") = 1
               /\ LastCalled = "schedule_monitoring"
               /\ CallNames[Len(CallNames) - 1] = "consider_consensus"
               /\ Logged("Consensus Consideration", "result")
        /\ ~Positive => TimesCalled("schedule_monitoring") = 0

\* a positive conclude on an agent that has been defined and evaluated
C8_Witness ==
    /\ Positive
    /\ "posterior" \in DOMAIN confidence_scores
    /\ statement # <<>>
    /\ Called("schedule_monitoring")

----------------------------------------------------------------------------
(* The __main__ scenario *)

\* the first k calls are define, gather, evaluate, conclude in that order,
\* each on the input __main__ gives it
MainRun(k) ==
    /\ Len(history) = k
    /\ \A i \in 1..k :
           /\ history[i].op = <<"define", "gather", "evaluate", "conclude">>[i]
           /\ history[i].main

\* C9: end to end with context "Workplace motivation", two premises both
\* scoring 0.8 and all helpers agreeing: define completes and returns both
\* premises, each with prior 0.7; then gather, evaluate and conclude complete
\* in that order, and conclude returns truth: true with
\* confidence_scores["posterior"] equal to the posterior update_bayesian
\* reported.
C9_EndToEnd ==
    /\ MainRun(1) =>
           /\ last.outcome = "returned"
           /\ last.result.premises = MainPremises
           /\ \A i \in 1..Len(MainPremises) :
                  /\ MainPremises[i] \in DOMAIN confidence_scores
                  /\ confidence_scores[MainPremises[i]] = InitialPrior
    /\ \A k \in 2..4 :
           MainRun(k) => \A i \in 1..k : history[i].outcome = "returned"
    /\ MainRun(4) =>
           /\ Positive
           /\ "posterior" \in DOMAIN last.result.confidence
           /\ last.result.confidence["posterior"] = SrcPosterior

\* C10: when every conclude checkpoint before authority credibility agrees
\* and trust_authority reports not credible, conclude returns exactly
\* {truth: false, reason: "Expert not credible"} and neither the consensus
\* checkpoint nor the monitoring scheduler is invoked; in general the reason
\* returned names the first disagreeing checkpoint, not a later one.
C10_FirstDisagreementNamed ==
    (/\ last.op = "conclude"
     /\ last.in.ev["conclude_rationally"] = "src"
     /\ last.in.ev["accept_belief"] = "src") =>
        LET failing == {i \in 1..Len(SoftOrder) : last.in.ev[SoftOrder[i]] = "fail"}
            first == CHOOSE i \in failing : \A j \in failing : i <= j
        IN failing # {} =>
               /\ last.outcome = "returned"
               /\ last.result = [truth |-> FALSE, reason |-> SoftReason[first]]
               /\ first = 4 =>
                      /\ last.result =
                             [truth |-> FALSE, reason |-> "Expert not credible"]
                      /\ Called("trust_authority")
                      /\ ~Called("consider_consensus")
                      /\ ~Called("schedule_monitoring")

\* authority and consensus both disagree, and the verdict names authority
C10_Witness ==
    /\ last.op = "conclude"
    /\ last.in.ev["trust_authority"] = "fail"
    /\ last.in.ev["consider_consensus"] = "fail"
    /\ last.outcome = "returned"
    /\ last.result.reason = "Expert not credible"

----------------------------------------------------------------------------
(* The log lines of a checkpoint *)

\* the checkpoint each helper is invoked by: the step name its log_step
\* calls carry
StepOf ==
    [h \in {"evaluate_clarity", "prepare_for_group", "frame_practical",
            "clarify_statement", "simulate_gut", "observe_phenomena",
            "record_data", "build_arguments", "list_beliefs", "gather_facts",
            "apply_scenario", "conduct_experiment", "is_outdated",
            "refresh_data", "review_credentials", "consult_group",
            "analyze_data", "update_bayesian", "refine_hypothesis"}
           \cup DefineHelpers \cup EvaluateHelpers \cup ConcludeHelpers |->
        CASE h = "evaluate_clarity" -> "Premises Identification"
          [] h = "is_falsifiable" -> "Hypothesis Formation"
          [] h = "context_match" -> "Statement Identification"
          [] h \in {"clarify_statement", "is_assessable"} -> "Belief Clarification"
          [] h \in {"frame_practical", "is_actionable"} -> "Claim Definition"
          [] h = "prepare_for_group" -> "Proposition Articulation"
          [] h = "find_expert" -> "Expert Identification"
          [] h = "simulate_gut" -> "Gut Tuning"
          [] h = "observe_phenomena" -> "Phenomena Observation"
          [] h = "record_data" -> "Experience Recording"
          [] h = "build_arguments" -> "Argument Building"
          [] h = "list_beliefs" -> "Beliefs Listing"
          [] h = "gather_facts" -> "Facts Gathering"
          [] h = "apply_scenario" -> "Scenario Application"
          [] h \in {"conduct_experiment", "is_outdated", "refresh_data"} ->
                 "Experiment Conducting"
          [] h = "review_credentials" -> "Credentials Review"
          [] h = "consult_group" -> "Group Consultation"
          [] h = "cross_check_logic" -> "Logic Cross-Check"
          [] h = "test_consistency" -> "Consistency Testing"
          [] h = "check_fit" -> "Fit Checking"
          [] h = "compare_facts" -> "Statement Comparison"
          [] h = "verify_repeatability" -> "Repeatability Verification"
          [] h \in {"analyze_data", "update_bayesian"} -> "Data Analysis"
          [] h = "evaluate_outcomes" -> "Outcomes Evaluation"
          [] h = "evaluate_testimony" -> "Testimony Evaluation"
          [] h = "gauge_consensus" -> "Agreement Gauging"
          [] h = "conclude_rationally" -> "Rational Conclusion"
          [] h = "accept_belief" -> "Belief Acceptance"
          [] h = "conclude_alignment" -> "Alignment Conclusion"
          [] h = "accept_empirically" -> "Empirical Acceptance"
          [] h = "refine_hypothesis" -> "Hypothesis Refinement"
          [] h = "deem_practical" -> "Practical Deeming"
          [] h = "trust_authority" -> "Authority Trusting"
          [] h = "consider_consensus" -> "Consensus Consideration"]

\* the positions in the trace at which a checkpoint invokes a helper
CheckpointCalls ==
    {i \in 1..Len(trace) :
        trace[i].kind = "call" /\ trace[i].name \in DOMAIN StepOf}

\* the trace has the log line (step, phase) at a position in the set at
LoggedAt(step, phase, at) ==
    \E j \in at :
        trace[j].kind = "log" /\ trace[j].name = step /\ trace[j].detail = phase

\* the last call ended before its last checkpoint: it raised, or conclude
\* returned a negative verdict
EndedEarly ==
    \/ last.outcome = "raised"
    \/ last.op = "conclude" /\ last.outcome = "returned" /\ ~last.result.truth

\* the step of the last log line of the trace: when the call ended early,
\* the checkpoint it ended in
LastStep ==
    LET logs == {j \in 1..Len(trace) : trace[j].kind = "log"}
    IN trace[CHOOSE j \in logs : \A k \in logs : k <= j].name

\* C11 as stated: for every checkpoint whose helper is invoked, a log line
\* carrying the checkpoint's name and its result is emitted, whether the
\* checkpoint passes, raises or returns early.
C11_ResultAlwaysLogged ==
    \A i \in CheckpointCalls :
        LoggedAt(StepOf[trace[i].name], "result", (i + 1)..Len(trace))

\* C11 amended: every checkpoint whose helper is invoked has announced
\* itself by a log line carrying its name before the helper runs, however
\* it ends; the log line carrying its result follows if and only if the
\* checkpoint passes.
C11_ResultLoggedIffPassed ==
    \A i \in CheckpointCalls :
        LET step == StepOf[trace[i].name]
        IN /\ LoggedAt(step, "start", 1..(i - 1))
           /\ LoggedAt(step, "result", (i + 1)..Len(trace))
                  <=> ~(EndedEarly /\ LastStep = step)

\* a conclude that ended at the authority checkpoint: announced, not reported
C11_Witness ==
    /\ last.op = "conclude"
    /\ EndedEarly
    /\ LastCalled = "trust_authority"
    /\ Logged("Authority Trusting", "start")
    /\ ~Logged("Authority Trusting", "result")
    /\ Logged("Practical Deeming", "result")

----------------------------------------------------------------------------
(* The order of the stages *)

\* the stage each public method starts from and the stage it leads to
StageFrom ==
    [op \in {"define", "gather", "evaluate", "conclude"} |->
        CASE op = "define" -> "Created"
          [] op = "gather" -> "Defined"
          [] op = "evaluate" -> "GatheredEvidence"
          [] op = "conclude" -> "Evaluated"]

StageTo ==
    [op \in {"define", "gather", "evaluate", "conclude"} |->
        CASE op = "define" -> "Defined"
          [] op = "gather" -> "GatheredEvidence"
          [] op = "evaluate" -> "Evaluated"
          [] op = "conclude" -> "Concluded"]

\* the stage label after the first k calls: a call moves it one step when
\* it is made in its own stage and completes, and leaves it otherwise
RECURSIVE StageAfter(_)
StageAfter(k) ==
    IF k = 0 THEN "Created"
    ELSE LET before == StageAfter(k - 1)
             call == history[k]
         IN IF call.outcome = "returned" /\ before = StageFrom[call.op]
            THEN StageTo[call.op] ELSE before

\* the last call appended to the ledger or wrote a confidence score
Mutated ==
    \E i \in 1..Len(trace) : trace[i].kind \in {"append", "score"}

\* C12 as stated: the stages are passed in the order Created, Defined,
\* GatheredEvidence, Evaluated, Concluded, one step per completed call; a
\* call takes effect, by returning a result or changing the state, only
\* when the stage before it has completed, and conclude reaches Concluded
\* with either verdict.
C12_StagesInOrder ==
    history # <<>> =>
        /\ (last.outcome = "returned" \/ Mutated) =>
               StageAfter(Len(history) - 1) = StageFrom[last.op]
        /\ (last.op = "conclude" /\ last.outcome = "returned") =>
               StageAfter(Len(history)) = "Concluded"

\* C12 amended: no order is enforced.  Whatever calls came before, gather
\* appends its records and returns the ledger, evaluate completes exactly
\* when its eight raising checkpoints pass, and conclude completes, with
\* either verdict, exactly when its two raising checkpoints pass.
C12_NoOrderEnforced ==
    /\ last.op = "gather" =>
           /\ last.outcome = "returned"
           /\ last.result = evidence
           /\ Mutated
    /\ last.op = "evaluate" =>
           /\ last.outcome = "returned"
                  <=> \A h \in EvaluateHelpers : last.in.ev[h] = "src"
           /\ Called("update_bayesian") => "posterior" \in DOMAIN confidence_scores
    /\ last.op = "conclude" =>
           last.outcome = "returned"
               <=> /\ last.in.ev["conclude_rationally"] = "src"
                   /\ last.in.ev["accept_belief"] = "src"

\* a gather on an agent for which nothing has been defined takes effect
C12_Witness ==
    /\ last.op = "gather"
    /\ StageAfter(Len(history) - 1) = "Created"
    /\ statement = <<>>
    /\ last.outcome = "returned"
    /\ Len(evidence) = 10

----------------------------------------------------------------------------
(* The data analysis checkpoint of evaluate *)

\* the first position of the trace holding an event of this kind and name
FirstAt(kind, name) ==
    LET at == {i \in 1..Len(trace) : trace[i].kind = kind /\ trace[i].name = name}
    IN CHOOSE i \in at : \A j \in at : i <= j

Has(kind, name) ==
    \E i \in 1..Len(trace) : trace[i].kind = kind /\ trace[i].name = name

\* the helpers of the five checkpoints before the data analysis
FirstFive ==
    {"cross_check_logic", "test_consistency", "check_fit", "compare_facts",
     "verify_repeatability"}

\* C13: in evaluate, whenever the first five checkpoints pass,
\* confidence_scores["posterior"] is written with the value update_bayesian
\* returned, whatever the analysis reports; the write comes before any
\* nested gather, the nested gather is over before evaluate_outcomes is
\* invoked, and the posterior stays in the state when a later checkpoint of
\* evaluate fails.
C13_PosteriorUnconditional ==
    (last.op = "evaluate" /\ \A h \in FirstFive : last.in.ev[h] = "src") =>
        /\ Has("score", "posterior")
        /\ "posterior" \in DOMAIN confidence_scores
        /\ confidence_scores["posterior"] =
               update_bayesian(last.in.analysis, last.in.posterior)
        /\ FirstAt("call", "update_bayesian") < FirstAt("score", "posterior")
        /\ Has("enter", "gather_evidence") =>
               /\ FirstAt("score", "posterior") < FirstAt("enter", "gather_evidence")
               /\ Has("exit", "gather_evidence")
               /\ Has("call", "evaluate_outcomes")
               /\ FirstAt("exit", "gather_evidence")
                      < FirstAt("call", "evaluate_outcomes")

\* an evaluate that gathered again and then failed a later checkpoint, on an
\* agent whose earlier evaluate had written another posterior
C13_Witness ==
    /\ last.op = "evaluate"
    /\ last.outcome = "raised"
    /\ last.error = "Expert testimony not relevant."
    /\ Has("exit", "gather_evidence")
    /\ Len(history) >= 2
    /\ \E k \in 1..(Len(history) - 1) :
           history[k].op = "evaluate" /\ history[k].outcome = "returned"
    /\ confidence_scores["posterior"] = 60

\* the analysis of the last evaluate reports newly discovered sources
ReportsNewSources == "new_sources" \in DOMAIN last.in.analysis

\* C14: in evaluate, the nested gather is triggered if and only if the
\* analysis reports newly discovered evidence sources, and it is called with
\* exactly those sources: never triggered when none are reported, never
\* skipped when some are.
C14_GatherIffNewSources ==
    (last.op = "evaluate" /\ Called("analyze_data")) =>
        /\ Has("enter", "gather_evidence") <=> ReportsNewSources
        /\ Has("enter", "gather_evidence") =>
               trace[FirstAt("enter", "gather_evidence")].detail =
                   [data_sources |-> last.in.analysis["new_sources"]]

----------------------------------------------------------------------------
(* What the ledger and the scores keep *)

\* the ledger as a reader sees it: the data of an expert record is the
\* dict the record refers to, as that dict now is
Resolved(ledger, h) ==
    [i \in 1..Len(ledger) |->
        IF ledger[i].source = "expert"
        THEN Record("expert", h[ledger[i].data.ref])
        ELSE ledger[i]]

\* the ledger before a step is a prefix of the ledger after it
LedgerExtended ==
    /\ Len(evidence') >= Len(evidence)
    /\ \A i \in 1..Len(evidence) :
           Resolved(evidence', heap')[i] = Resolved(evidence, heap)[i]

\* C15: the evidence ledger is append-only under any sequence of public
\* operations, aborted ones and nested gathers included: in every step the
\* previous ledger is a prefix of the new one, so no record is ever deleted,
\* replaced or reordered.
C15_LedgerAppendOnly == [][LedgerExtended]_vars

\* a step removes no key of confidence_scores, and changes the value of a
\* key only by writing it
ScoresKept ==
    /\ DOMAIN confidence_scores \subseteq DOMAIN confidence_scores'
    /\ \A k \in DOMAIN confidence_scores :
           confidence_scores'[k] # confidence_scores[k] =>
               \E i \in 1..Len(trace') :
                   trace'[i].kind = "score" /\ trace'[i].name = k

\* C16: the key set of confidence_scores only grows under any sequence of
\* public operations: no operation removes a key, a premise dropped by a
\* later define keeps the prior it had, and values such as "posterior" may
\* be overwritten by a later evaluate.
C16_ScoreKeysGrow == [][ScoresKept]_vars

\* a define has dropped a premise that an earlier define had scored, and the
\* prior is still there
C16_Witness ==
    /\ FilterRan
    /\ Len(history) >= 2
    /\ \E i \in 1..Len(last.in.initial_premises) :
           LET p == last.in.initial_premises[i]
           IN /\ last.in.clarity[p] <= ClarityThreshold
              /\ ~InSeq(p, premises)
              /\ p \in DOMAIN confidence_scores
              /\ confidence_scores[p] = InitialPrior

----------------------------------------------------------------------------
(* The statement and the hypothesis *)

IsPrefix(p, q) == Len(p) <= Len(q) /\ SubSeq(q, 1, Len(p)) = p

\* s is h as checkpoint 1.4 copies it, as 1.5 clarifies it, or as 1.6 frames
\* the clarified text
Derived(s, h) == s = h \/ IsPrefix(clarify_statement(h), s)

\* a step keeps a statement that was set non-empty, and leaves it derived
\* from the hypothesis the agent then holds
StatementFollowsHypothesis ==
    /\ statement # <<>> => statement' # <<>>
    /\ statement' # <<>> => Derived(statement', hypothesis')

\* C17: once define has set statement, statement is non-empty in every
\* later state and is derived from the current hypothesis (the hypothesis,
\* then clarified, then framed), under any sequence of public operations,
\* a later define that aborts after rewriting hypothesis included.
C17_StatementDerived == [][StatementFollowsHypothesis]_vars

----------------------------------------------------------------------------
(* The ledger and the number of gathers *)

\* the number of gather_evidence invocations started by the first k calls
RECURSIVE GathersUpTo(_)
GathersUpTo(k) ==
    IF k = 0 THEN 0 ELSE GathersUpTo(k - 1) + history[k].gathers

\* C18: whenever no public operation is in flight, the ledger length is 10
\* times the number of gather invocations started so far, direct calls and
\* the calls nested in evaluate alike; an evaluate whose analysis triggers
\* the nested gather leaves the ledger 10 records longer, and gather returns
\* the whole accumulated ledger, not only its 10 new records.
C18_TenPerGatherStarted ==
    /\ Len(evidence) = 10 * GathersUpTo(Len(history))
    /\ (last.op = "evaluate" /\ Called("analyze_data")
            /\ Truthy(last.in.analysis, "new_patterns")) =>
           Len(evidence) = 10 * GathersUpTo(Len(history) - 1) + 10
    /\ last.op = "gather" =>
           /\ last.result = evidence
           /\ Len(last.result) = 10 * GathersUpTo(Len(history))

\* a gather after an evaluate that gathered returns more than its own records
C18_Witness ==
    /\ last.op = "gather"
    /\ \E k \in 1..(Len(history) - 1) :
           history[k].op = "evaluate" /\ history[k].gathers = 1
    /\ Len(last.result) >= 20

----------------------------------------------------------------------------
(* A define that aborts *)

\* what the agent holds
Fields ==
    <<premises, hypothesis, statement, evidence, expert_data, heap,
      group_feedback, confidence_scores>>

\* the errors of define by the checkpoint that raises them
AfterHypothesisWritten ==
    {"Hypothesis must be falsifiable.", "Statement does not match context.",
     "Statement not assessable.", "AttributeError: frame_practical",
     "Claim not actionable.", "No qualified expert found."}

\* a step that is a define which raised leaves what the checkpoints before
\* the raise wrote
AbortKeepsWrites ==
    (last'.op = "define" /\ last'.outcome = "raised") =>
        LET in == last'.in
            e == last'.error
            h == HypothesisText(in)
            kept == PremiseLoop(in.initial_premises, 1, in.clarity,
                                [premises |-> <<>>, scores |-> confidence_scores,
                                 events |-> <<>>])
        IN IF e = "Context required for focus." THEN Fields' = Fields
           ELSE /\ premises' = kept.premises
                /\ confidence_scores' = kept.scores
                /\ \A i \in 1..Len(trace') :
                       trace'[i].kind = "score" =>
                           /\ trace'[i].name \in DOMAIN confidence_scores'
                           /\ confidence_scores'[trace'[i].name] = InitialPrior
                /\ hypothesis' = IF e \in AfterHypothesisWritten
                                 THEN h ELSE hypothesis
                /\ statement' =
                       CASE e \in {"Phenomenon required for hypothesis.",
                                   "Hypothesis must be falsifiable."} -> statement
                         [] e = "Statement does not match context." -> h
                         [] e \in {"Statement not assessable.",
                                   "AttributeError: frame_practical"} ->
                                clarify_statement(h)
                         [] OTHER ->
                                frame_practical(clarify_statement(h),
                                                in.use_case, in.frame)
                /\ e = "No qualified expert found." =>
                       /\ expert_data' # expert_data
                       /\ heap'[expert_data'] = find_expert(in.domain, "fail")

----------------------------------------------------------------------------
(* What the checkpoints after a nested gather read *)

\* the value a helper was handed, in the trace of the step's call
ReadBy(t, helper) ==
    LET at == {i \in 1..Len(t) : t[i].kind = "read" /\ t[i].name = helper}
    IN t[CHOOSE i \in at : TRUE].detail

WasRead(t, helper) ==
    \E i \in 1..Len(t) : t[i].kind = "read" /\ t[i].name = helper

\* a step that is an evaluate with a nested gather: the gather got the new
\* sources and nothing else, rewrote the reliability and the feedback, and
\* the two checkpoints that read them were handed the rewritten values
NestedGatherFeedsLaterCheckpoints ==
    (last'.op = "evaluate" /\ GathersStarted(trace') = 1) =>
        LET gv == last'.in.gather
            at == CHOOSE i \in 1..Len(trace') : trace'[i].kind = "enter"
            reliability == review_credentials(heap[expert_data], gv)
            feedback == consult_group(statement, None, gv)
        IN /\ DOMAIN trace'[at].detail = {"data_sources"}
           /\ expert_data' = expert_data
           /\ heap'[expert_data'] =
                  DictSet(heap[expert_data], "reliability", reliability)
           /\ group_feedback' = feedback
           /\ WasRead(trace', "evaluate_testimony") =>
                  ReadBy(trace', "evaluate_testimony").reliability = reliability
           /\ WasRead(trace', "gauge_consensus") =>
                  ReadBy(trace', "gauge_consensus") = feedback
           /\ last'.outcome = "returned" =>
                  /\ WasRead(trace', "evaluate_testimony")
                  /\ WasRead(trace', "gauge_consensus")

\* C20: when evaluate triggers the nested gather, that gather runs with a
\* context holding only the new data sources and overwrites the expert
\* reliability and the group feedback in the state, so the testimony and
\* consensus checkpoints that follow read the values the nested gather
\* produced, not those of the gather that preceded evaluate.
C20_NestedGatherOverwrites == [][NestedGatherFeedsLaterCheckpoints]_vars

\* after a gather with the helpers as written, an evaluate whose nested
\* gather scored the expert and the group otherwise, and whose later
\* checkpoints were handed those other values
C20_Witness ==
    /\ last.op = "evaluate"
    /\ last.outcome = "returned"
    /\ GathersStarted(trace) = 1
    /\ \E k \in 1..(Len(history) - 1) : history[k].op = "gather"
    /\ last.in.gather.review_credentials = "double"
    /\ last.in.gather.consult_group = "double"
    /\ ReadBy(trace, "evaluate_testimony").reliability = 40
    /\ ReadBy(trace, "gauge_consensus") # consult_group(statement, None, SrcGather)

====
